---- MODULE Spec2Model ----
(***************************************************************************)
(* A model of the zeta-milp spectral pipeline (src/zeta-milp/src/          *)
(* spectral_pipeline): the statistics engine, the evaluator, the           *)
(* representations, the CAL controller and the pipeline orchestrator.      *)
(*                                                                         *)
(* Numbers.  A Python/numpy float is modelled as an exact extended         *)
(* rational <<n, d>>: d > 0 and gcd(n, d) = 1 for a finite value, and      *)
(* d = 0 for the IEEE special values a division by zero produces:          *)
(* <<1, 0>> is +inf, <<-1, 0>> is -inf and <<0, 0>> is NaN.  Rounding is   *)
(* not modelled.  An array is a sequence of such values.                   *)
(*                                                                         *)
(* Optional values.  Python's None is the empty tuple <<>>, and a value    *)
(* v that is present is the one-element tuple <<v>>.                       *)
(*                                                                         *)
(* Calls.  The outcome of a call is a record [ok, err, val]: a normal      *)
(* return of val, or an exception named by err.                            *)
(***************************************************************************)
EXTENDS Integers, Sequences, FiniteSets, TLC

VARIABLES
    data_source,        \* what SpectralPipeline.data_source.load() does
    representation,     \* SpectralPipeline.representation
    original_sequence,  \* SpectralPipeline.original_sequence (optional array)
    processed_sequence, \* SpectralPipeline.processed_sequence (optional array)
    alpha_history,      \* SpectralPipeline.alpha_history (list of arrays)
    learning_rate,      \* CALController.learning_rate
    momentum,           \* CALController.momentum
    projection_fn,      \* CALController.projection_fn (optional callable)
    velocity,           \* CALController.velocity (optional array)
    op,                 \* the last operation called, with its arguments
    ret,                \* the outcome of the last operation
    calls,              \* how often the last operation invoked its collaborators
    phase,              \* history: "unrun", "aborted" (run called, none returned), "completed"
    trace,              \* history: the gradients applied since the velocity was zeroed
    args                \* the arrays the stateless functions are applied to

pipeline_vars == <<data_source, representation, original_sequence, processed_sequence,
                   alpha_history, phase>>
controller_vars == <<learning_rate, momentum, projection_fn, velocity, trace>>
vars == <<pipeline_vars, controller_vars, op, ret, calls, args>>

(***************************************************************************)
(* Optional values and call outcomes                                       *)
(***************************************************************************)
None == <<>>
Some(v) == <<v>>
Ok(v) == [ok |-> TRUE, err |-> "", val |-> v]
Raise(e) == [ok |-> FALSE, err |-> e, val |-> <<>>]

(***************************************************************************)
(* Float arithmetic (exact, with the IEEE special values)                  *)
(***************************************************************************)
Abs(x) == IF x < 0 THEN -x ELSE x
Sign(x) == IF x < 0 THEN -1 ELSE IF x > 0 THEN 1 ELSE 0

RECURSIVE Gcd(_, _)
Gcd(a, b) == IF b = 0 THEN a ELSE Gcd(b, a % b)
Lcm(a, b) == (a \div Gcd(a, b)) * b

Frac(n, d) ==
    IF d = 0 THEN <<Sign(n), 0>>
    ELSE LET g == Gcd(Abs(n), Abs(d))
             s == Sign(d)
         IN  <<(s * n) \div g, (s * d) \div g>>

NaN == <<0, 0>>
PosInf == <<1, 0>>
NegInf == <<-1, 0>>
Zero == <<0, 1>>
One == <<1, 1>>
Int2F(i) == <<i, 1>>

IsNaN(a) == a = NaN
IsFinite(a) == a[2] # 0
IsInf(a) == a[2] = 0 /\ a[1] # 0

FNeg(a) == <<-a[1], a[2]>>
FAbs(a) == <<Abs(a[1]), a[2]>>

FAdd(a, b) ==
    IF IsNaN(a) \/ IsNaN(b) THEN NaN
    ELSE IF IsInf(a) THEN (IF IsInf(b) /\ a # b THEN NaN ELSE a)
    ELSE IF IsInf(b) THEN b
    ELSE LET l == Lcm(a[2], b[2])
         IN  Frac(a[1] * (l \div a[2]) + b[1] * (l \div b[2]), l)

FSub(a, b) == FAdd(a, FNeg(b))

FMul(a, b) ==
    IF IsNaN(a) \/ IsNaN(b) THEN NaN
    ELSE IF IsInf(a) \/ IsInf(b)
         THEN (IF a[1] = 0 \/ b[1] = 0 THEN NaN ELSE <<Sign(a[1]) * Sign(b[1]), 0>>)
    ELSE LET g1 == Gcd(Abs(a[1]), b[2])
             g2 == Gcd(Abs(b[1]), a[2])
         IN  Frac((a[1] \div g1) * (b[1] \div g2), (a[2] \div g2) * (b[2] \div g1))

\* x / 0 is +-inf, 0 / 0 and inf / inf are NaN, x / inf is 0 (numpy warns, and
\* raises nothing)
FInv(a) ==
    IF IsNaN(a) THEN NaN
    ELSE IF IsInf(a) THEN Zero
    ELSE IF a[1] = 0 THEN PosInf
    ELSE Frac(a[2], a[1])

FDiv(a, b) == FMul(a, FInv(b))

\* every comparison with NaN is false
FLe(a, b) ==
    IF IsNaN(a) \/ IsNaN(b) THEN FALSE
    ELSE IF IsInf(a) \/ IsInf(b) THEN (a = NegInf \/ b = PosInf \/ a = b)
    ELSE LET l == Lcm(a[2], b[2])
         IN  a[1] * (l \div a[2]) <= b[1] * (l \div b[2])

FLt(a, b) == FLe(a, b) /\ a # b

(***************************************************************************)
(* Arrays                                                                  *)
(***************************************************************************)
RECURSIVE Sum(_)
Sum(v) == IF v = <<>> THEN Zero ELSE FAdd(v[1], Sum(Tail(v)))

\* np.mean: the mean of the empty array is NaN (0 / 0)
Mean(v) == FDiv(Sum(v), Int2F(Len(v)))

\* np.diff
Diff(v) == [i \in 1..(IF Len(v) = 0 THEN 0 ELSE Len(v) - 1) |-> FSub(v[i + 1], v[i])]

Scale(c, v) == [i \in 1..Len(v) |-> FMul(c, v[i])]
DivBy(v, c) == [i \in 1..Len(v) |-> FDiv(v[i], c)]
Zeros(n) == [i \in 1..n |-> Zero]

\* numpy broadcasting of two one-dimensional arrays
Broadcastable(a, b) == Len(a) = Len(b) \/ Len(a) = 1 \/ Len(b) = 1
BLen(a, b) == IF Len(a) = 1 THEN Len(b) ELSE Len(a)
At(a, i) == IF Len(a) = 1 THEN a[1] ELSE a[i]
VAdd(a, b) == [i \in 1..BLen(a, b) |-> FAdd(At(a, i), At(b, i))]
VSub(a, b) == [i \in 1..BLen(a, b) |-> FSub(At(a, i), At(b, i))]
VMul(a, b) == [i \in 1..BLen(a, b) |-> FMul(At(a, i), At(b, i))]

SumSq(v) == Sum([i \in 1..Len(v) |-> FMul(v[i], v[i])])

(***************************************************************************)
(* np.sqrt and np.log: irrational results, kept to four decimals           *)
(***************************************************************************)
FixScale == 10^4
SeriesTerms == 2 * 3

RECURSIVE SqrtSearch(_, _, _)
SqrtSearch(lo, hi, x) ==
    IF lo >= hi THEN lo
    ELSE LET mid == (lo + hi + 1) \div 2
         IN  IF mid * mid <= x THEN SqrtSearch(mid, hi, x)
             ELSE SqrtSearch(lo, mid - 1, x)

\* floor(sqrt(x))
ISqrt(x) == SqrtSearch(0, IF x < 46340 THEN x ELSE 46340, x)

\* np.sqrt(N) for an integer N >= 0, to three decimals
Sqrt(N) == Frac(ISqrt(N * 10^6), 10^3)

RECURSIVE AtanhSeries(_, _, _)
AtanhSeries(zpow, z2, j) ==
    IF j > SeriesTerms THEN 0
    ELSE zpow \div (2 * j + 1) + AtanhSeries((zpow * z2) \div FixScale, z2, j + 1)

\* FixScale * ln(num / den) for 1 <= num / den <= 2, as 2 * atanh((num - den) / (num + den))
LnFix(num, den) ==
    LET z == ((num - den) * FixScale) \div (num + den)
    IN  2 * AtanhSeries(z, (z * z) \div FixScale, 0)

RECURSIVE Log2Floor(_)
Log2Floor(N) == IF N < 2 THEN 0 ELSE 1 + Log2Floor(N \div 2)

\* np.log(N) for an integer N >= 1: ln N = k ln 2 + ln(N / 2^k)
Log(N) ==
    LET k == Log2Floor(N)
    IN  Frac(k * LnFix(2, 1) + LnFix(N, 2^k), FixScale)

RECURSIVE Digits(_, _, _)
Digits(rem, d, k) ==
    IF k = 0 THEN 0
    ELSE ((rem * 10) \div d) * 10^(k - 1) + Digits((rem * 10) % d, d, k - 1)

\* a finite float a >= 0 cut to four decimals
Trunc4(a) ==
    IF ~IsFinite(a) THEN a
    ELSE Frac((a[1] \div a[2]) * FixScale + Digits(a[1] % a[2], a[2], 4), FixScale)

(***************************************************************************)
(* math_core/statistics.py                                                 *)
(***************************************************************************)
A_CONSTANT == Frac(5, 2)
B_CONSTANT == Frac(3, 1)
C_GUE == Frac(60338, 100000)

InsufficientData == "ValueError: Need at least 3 gaps for S_N computation"

\* a variant that leaves out the last adjacent pair, which C14 rules out
Products_without_last(gaps) == [i \in 1..(Len(gaps) - 2) |-> FMul(gaps[i], gaps[i + 1])]

\* normalized_gaps[:-1] * normalized_gaps[1:]
Products(gaps) == [i \in 1..(Len(gaps) - 1) |-> FMul(gaps[i], gaps[i + 1])]

\* a variant that accepts two gaps (one adjacent product), which C9 rules out
cosmic_harmony_statistic_two_gaps(normalized_gaps) ==
    IF Len(normalized_gaps) < 2 THEN Raise(InsufficientData)
    ELSE Ok(Mean(Products(normalized_gaps)))

cosmic_harmony_statistic(normalized_gaps) ==
    IF Len(normalized_gaps) < 3 THEN Raise(InsufficientData)
    ELSE Ok(Mean(Products(normalized_gaps)))

\* a variant without the finite-size correction B log N / N, which C13 rules out
convergence_bound_first_term(N, A, B) ==
    IF N < 3 THEN PosInf
    ELSE Trunc4(FDiv(A, Sqrt(N)))

convergence_bound(N, A, B) ==
    IF N < 3 THEN PosInf
    ELSE FAdd(Trunc4(FDiv(A, Sqrt(N))), Trunc4(FDiv(FMul(B, Log(N)), Int2F(N))))

\* a variant that reports the margin whether or not the bound is satisfied, which
\* C8 rules out
ValidationResult_margin_always(S_N, deviation, bound) ==
    [S_N |-> S_N,
     deviation |-> deviation,
     bound |-> bound,
     bound_satisfied |-> FLe(deviation, bound),
     safety_margin |-> Some(FSub(bound, deviation))]

\* lines 48-54: the dictionary returned
ValidationResult(S_N, deviation, bound) ==
    [S_N |-> S_N,
     deviation |-> deviation,
     bound |-> bound,
     bound_satisfied |-> FLe(deviation, bound),
     safety_margin |-> IF FLe(deviation, bound) THEN Some(FSub(bound, deviation))
                       ELSE None]

\* lines 44-54, S_N being the outcome of line 43
ValidateStatistic(S_N, N) ==
    IF ~S_N.ok THEN S_N
    ELSE Ok(ValidationResult(S_N.val, FAbs(FSub(S_N.val, C_GUE)),
                             convergence_bound(N, A_CONSTANT, B_CONSTANT)))

validate_convergence(normalized_gaps) ==
    ValidateStatistic(cosmic_harmony_statistic(normalized_gaps), Len(normalized_gaps))

(***************************************************************************)
(* data/base.py                                                            *)
(***************************************************************************)
\* gaps / np.mean(gaps): a division by a zero mean raises nothing
GapsOverMean(gaps) == Ok(DivBy(gaps, Mean(gaps)))

\* a variant that divides the gaps by their sum, not by their mean, which C15 rules
\* out
normalize_gaps_by_sum(sequence) == Ok(DivBy(Diff(sequence), Sum(Diff(sequence))))

normalize_gaps(sequence) == GapsOverMean(Diff(sequence))

(***************************************************************************)
(* evaluation/metrics.py                                                   *)
(***************************************************************************)
BroadcastError == "ValueError: operands could not be broadcast together"

\* line 9, S_N being the outcome of line 8
DeviationOf(S_N) == IF ~S_N.ok THEN S_N ELSE Ok(FAbs(FSub(S_N.val, C_GUE)))

compute_deviation(normalized_gaps) == DeviationOf(cosmic_harmony_statistic(normalized_gaps))

\* np.linalg.norm(v) is sqrt(SumSq(v)); a square root is written [sqrt_of |-> x], so
\* that the quotient of two norms, sqrt(a) / sqrt(b) = sqrt(a / b), stays exact
\* (0 / 0 is NaN and a / 0 is inf under the root as outside it)
norm(v) == [sqrt_of |-> SumSq(v)]
RootDiv(a, b) == [sqrt_of |-> FDiv(a.sqrt_of, b.sqrt_of)]

compute_reconstruction_error(original, reconstructed) ==
    IF ~Broadcastable(original, reconstructed) THEN Raise(BroadcastError)
    ELSE Ok(RootDiv(norm(VSub(original, reconstructed)), norm(original)))

\* np.diff(alpha_sequence, axis=0)
RowDiff(rows) == [i \in 1..(Len(rows) - 1) |-> VSub(rows[i + 1], rows[i])]

\* np.linalg.norm(changes, axis=1), the rows being of shape (1,) as the pipeline's
\* alpha is: the norm of a row is the absolute value of its component
RowNorms(changes) == [i \in 1..Len(changes) |-> FAbs(changes[i][1])]

FMax(a, b) == IF IsNaN(a) \/ IsNaN(b) THEN NaN ELSE IF FLe(a, b) THEN b ELSE a

RECURSIVE MaxOf(_)
MaxOf(v) == IF Len(v) = 1 THEN v[1] ELSE FMax(v[1], MaxOf(Tail(v)))

\* lines 23-27
StabilityOf(norms) ==
    [mean_change |-> Mean(norms),
     max_change |-> MaxOf(norms),
     final_change |-> IF Len(norms) > 0 THEN norms[Len(norms)] ELSE Zero]

compute_parameter_stability(alpha_sequence) ==
    IF Len(alpha_sequence) < 2 THEN [mean_change |-> Zero, max_change |-> Zero]
    ELSE StabilityOf(RowNorms(RowDiff(alpha_sequence)))

\* lines 39-43, given the outcomes of lines 35-37
MergeMetrics(deviation, reconstruction_error, stability) ==
    IF ~deviation.ok THEN deviation
    ELSE IF ~reconstruction_error.ok THEN reconstruction_error
    ELSE Ok([deviation_from_GUE |-> deviation.val,
             reconstruction_error |-> reconstruction_error.val] @@ stability)

evaluate_pipeline(original_seq, processed_seq, alpha_hist) ==
    MergeMetrics(compute_deviation(processed_seq),
                 compute_reconstruction_error(original_seq, processed_seq),
                 compute_parameter_stability(alpha_hist))

(***************************************************************************)
(* representation/raw.py and representation/lie_group.py                   *)
(*                                                                         *)
(* The coefficients of scipy's fft and of pywt's wavedec are irrational;   *)
(* a coefficient array is written as the record of the signal it was       *)
(* computed from and of its length, which is all the callers below read.   *)
(***************************************************************************)
RawRepresentation == [kind |-> "raw", basis_type |-> "", sparsity_param |-> Zero]
LieGroupSpectralCompression(basis_type, sparsity_param) ==
    [kind |-> "lie_group", basis_type |-> basis_type, sparsity_param |-> sparsity_param]

UnknownBasis == "ValueError: Unknown basis type"
EmptyInput == "ValueError: invalid number of data points"
ShapeMismatch == "ValueError: coefficient shape mismatch"

WaveletLevel == 4
FilterLength == 8

\* pywt: the length of one level's coefficients of a signal of n samples
DwtCoeffLen(n) == (n + FilterLength - 1) \div 2

RECURSIVE ApproxLens(_, _)
\* the lengths of the approximations at levels 1..level of a signal of n samples
ApproxLens(n, level) ==
    IF level = 0 THEN <<>>
    ELSE <<DwtCoeffLen(n)>> \o ApproxLens(DwtCoeffLen(n), level - 1)

\* cA4, cD4, cD3, cD2, cD1 from the approximations of levels 1..4
CoeffOrder(a) == <<a[WaveletLevel]>> \o [i \in 1..WaveletLevel |-> a[WaveletLevel + 1 - i]]

\* [len(c) for c in pywt.wavedec(x, 'db4', level=4)] for x of n samples
WavedecLens(n) == CoeffOrder(ApproxLens(n, WaveletLevel))

RECURSIVE IntSum(_)
IntSum(v) == IF v = <<>> THEN 0 ELSE v[1] + IntSum(Tail(v))

Min(a, b) == IF a <= b THEN a ELSE b

RECURSIVE SliceLens(_, _, _)
\* len(transformed[start:start + slice_len]) for each slice_len in turn
SliceLens(lens, start, total) ==
    IF lens = <<>> THEN <<>>
    ELSE <<Min(total, start + lens[1]) - Min(total, start)>>
             \o SliceLens(Tail(lens), start + lens[1], total)

RECURSIVE WaverecLen(_, _)
\* pywt.waverec: the length it reconstructs from an approximation of a samples and
\* details of the lengths ds, or -1 where it raises for mismatched shapes
WaverecLen(a, ds) ==
    IF ds = <<>> THEN a
    ELSE IF a = ds[1] + 1 THEN WaverecLen(2 * ds[1] - FilterLength + 2, Tail(ds))
    ELSE IF a # ds[1] THEN -1
    ELSE WaverecLen(2 * a - FilterLength + 2, Tail(ds))

\* a variant whose transform hands an unrecognized basis the sequence as it is, which
\* C11 rules out
transform_falls_through(self, sequence) ==
    IF self.kind = "raw" THEN Ok(sequence)
    ELSE IF self.basis_type = "dft"
         THEN IF Len(sequence) = 0 THEN Raise(EmptyInput)
              ELSE Ok([coeffs_of |-> sequence, length |-> Len(sequence)])
    ELSE IF self.basis_type = "wavelet"
         THEN IF Len(sequence) = 0 THEN Raise(EmptyInput)
              ELSE Ok([coeffs_of |-> sequence,
                       length |-> IntSum(WavedecLens(Len(sequence)))])
    ELSE Ok(sequence)

transform(self, sequence) ==
    IF self.kind = "raw" THEN Ok(sequence)
    ELSE IF self.basis_type = "dft"
         THEN IF Len(sequence) = 0 THEN Raise(EmptyInput)
              ELSE Ok([coeffs_of |-> sequence, length |-> Len(sequence)])
    ELSE IF self.basis_type = "wavelet"
         THEN IF Len(sequence) = 0 THEN Raise(EmptyInput)
              ELSE Ok([coeffs_of |-> sequence,
                       length |-> IntSum(WavedecLens(Len(sequence)))])
    ELSE Raise(UnknownBasis)

\* lines 54 and 59, n being the length waverec reconstructs (-1: it raises)
Reconstruction(transformed, n) ==
    IF n < 0 THEN Raise(ShapeMismatch)
    ELSE Ok(SubSeq(transformed.coeffs_of, 1, Min(n, Len(transformed.coeffs_of))))

\* lines 47-54, slices being the lengths of the coefficient blocks cut at 49-53
Waverec(transformed, slices) ==
    Reconstruction(transformed, WaverecLen(slices[1], Tail(slices)))

\* a variant whose Raw inverse drops the last element, which C16 rules out
inverse_transform_drops_last(self, transformed) ==
    IF self.kind = "raw" THEN Ok(SubSeq(transformed, 1, Len(transformed) - 1))
    ELSE IF self.basis_type = "dft"
         THEN Ok(SubSeq(transformed.coeffs_of, 1, transformed.length))
    ELSE IF self.basis_type = "wavelet"
         THEN Waverec(transformed,
                      SliceLens(WavedecLens(transformed.length), 0, transformed.length))
    ELSE Raise(UnknownBasis)

inverse_transform(self, transformed) ==
    IF self.kind = "raw" THEN Ok(transformed)
    ELSE IF self.basis_type = "dft"
         THEN \* ifft(fft(x)).real is x, which is as long as its spectrum
              Ok(SubSeq(transformed.coeffs_of, 1, transformed.length))
    ELSE IF self.basis_type = "wavelet"
         THEN Waverec(transformed,
                      SliceLens(WavedecLens(transformed.length), 0, transformed.length))
    ELSE Raise(UnknownBasis)

(***************************************************************************)
(* Caller-supplied callables: None (absent), or one of a few behaviours    *)
(***************************************************************************)
CallerError == "CallerError"

\* a gradient function: raises, or returns a constant array
Call(fn, alpha) ==
    IF fn.kind = "raises" THEN Raise(CallerError) ELSE Ok(fn.c)

\* a projection: raises, or clips every component to [0, 1]
Clip(x) == IF FLe(x, Zero) THEN Zero ELSE IF FLe(One, x) THEN One ELSE x
Project(fn, alpha) ==
    IF fn.kind = "raises" THEN Raise(CallerError)
    ELSE Ok([i \in 1..Len(alpha) |-> Clip(alpha[i])])

(***************************************************************************)
(* math_core/cal_objective.py                                              *)
(***************************************************************************)
\* the names the module binds: its imports (lines 2-3) and its two functions
cal_objective_globals == {"np", "Callable", "cal_objective", "cal_gradient"}
NameErrorC_GUE == "NameError: name 'C_GUE' is not defined"

\* what a call made: its outcome, and how often it invoked the two callables
Made(out, potential_calls, spectral_calls) ==
    [out |-> out, potential_calls |-> potential_calls, spectral_calls |-> spectral_calls]

\* line 44, given the outcomes of lines 41 and 42 (42 runs only if 41 returned)
CombineGradients(grad_potential, grad_spectral, S_N, mu) ==
    IF ~grad_potential.ok THEN Made(grad_potential, 1, 0)
    ELSE IF ~grad_spectral.ok THEN Made(grad_spectral, 1, 1)
    ELSE IF "C_GUE" \notin cal_objective_globals THEN Made(Raise(NameErrorC_GUE), 1, 1)
    ELSE IF ~Broadcastable(grad_potential.val, grad_spectral.val)
    THEN Made(Raise(BroadcastError), 1, 1)
    ELSE Made(Ok(VAdd(grad_potential.val,
                      Scale(FMul(FMul(mu, Int2F(2)), FSub(S_N, C_GUE)),
                            grad_spectral.val))), 1, 1)

cal_gradient(alpha, potential_grad_fn, spectral_grad_fn, S_N, mu) ==
    CombineGradients(Call(potential_grad_fn, alpha), Call(spectral_grad_fn, alpha),
                     S_N, mu)

(***************************************************************************)
(* control/cal_controller.py: the operations as functions of the           *)
(* controller's fields, self = [learning_rate, momentum, projection_fn,    *)
(* velocity]; each returns its outcome and the velocity it leaves          *)
(***************************************************************************)
\* a variant that unsets the velocity when the call fails, which C17 rules out
Left_unset_on_error(out, v) == [out |-> out, velocity |-> IF out.ok THEN Some(v) ELSE None]

Left(out, v) == [out |-> out, velocity |-> Some(v)]

initialize(self, alpha_shape) == Left(Ok(None), Zeros(alpha_shape))

\* lines 40-43
ProjectUpdate(self, alpha_new, v) ==
    IF self.projection_fn # None THEN Left(Project(self.projection_fn[1], alpha_new), v)
    ELSE Left(Ok(alpha_new), v)

\* line 37, v being the velocity line 34 assigned
ParameterUpdate(self, alpha, v) ==
    IF ~Broadcastable(alpha, v) THEN Left(Raise(BroadcastError), v)
    ELSE ProjectUpdate(self, VSub(alpha, v), v)

\* a variant whose velocity forgets the previous one, which C7 rules out
MomentumUpdate_no_momentum(self, alpha, gradient, v0) ==
    IF ~Broadcastable(v0, gradient) THEN Left(Raise(BroadcastError), v0)
    ELSE ParameterUpdate(self, alpha,
                         VAdd(Zeros(Len(v0)), Scale(self.learning_rate, gradient)))

\* line 34, v0 being the velocity after lines 30-31
MomentumUpdate(self, alpha, gradient, v0) ==
    IF ~Broadcastable(v0, gradient) THEN Left(Raise(BroadcastError), v0)
    ELSE ParameterUpdate(self, alpha,
                         VAdd(Scale(self.momentum, v0), Scale(self.learning_rate, gradient)))

compute_update(self, alpha, gradient) ==
    MomentumUpdate(self, alpha, gradient,
                   IF self.velocity = None THEN Zeros(Len(alpha)) ELSE self.velocity[1])

compute_gradient(self, alpha, potential_grad_fn, spectral_grad_fn, S_N, mu) ==
    cal_gradient(alpha, potential_grad_fn, spectral_grad_fn, S_N, mu)

(***************************************************************************)
(* pipeline.py: the operations as functions of the pipeline's fields,      *)
(* self = [data_source, representation, original_sequence,                 *)
(* processed_sequence, alpha_history, controller]                          *)
(***************************************************************************)
NoCalls == [potential_grad_fn |-> 0, spectral_grad_fn |-> 0,
            compute_gradient |-> 0, compute_update |-> 0]

NotRunYet == "ValueError: Pipeline must be run first"

\* lines 57-61
EmptyHistory == [deviation |-> <<>>, reconstruction_error |-> <<>>,
                 parameter_change |-> <<>>]

\* lines 73-75
StoreMetrics(metrics_history, current_metrics) ==
    [key \in DOMAIN metrics_history |->
        IF key \in DOMAIN current_metrics
        THEN Append(metrics_history[key], current_metrics[key])
        ELSE metrics_history[key]]

\* The state of the control loop, L: alpha, the controller's velocity, the
\* pipeline's alpha_history, metrics_history, the Metrics Record of every
\* iteration so far (records), the collaborator calls made, and out, the
\* exception that left the loop if one did.

\* lines 86-87, u being what compute_update made
ApplyUpdate(L, u) ==
    IF ~u.out.ok
    THEN [L EXCEPT !.out = u.out, !.velocity = u.velocity,
                   !.calls.compute_update = @ + 1]
    ELSE [L EXCEPT !.alpha = u.out.val, !.velocity = u.velocity,
                   !.alpha_history = Append(@, u.out.val),
                   !.calls.compute_update = @ + 1]

\* lines 82-87, g being what compute_gradient made
GradientStep(controller, L, g) ==
    IF ~g.out.ok
    THEN [L EXCEPT !.out = g.out,
                   !.calls.compute_gradient = @ + 1,
                   !.calls.potential_grad_fn = @ + g.potential_calls,
                   !.calls.spectral_grad_fn = @ + g.spectral_calls]
    ELSE ApplyUpdate([L EXCEPT !.calls.compute_gradient = @ + 1,
                               !.calls.potential_grad_fn = @ + g.potential_calls,
                               !.calls.spectral_grad_fn = @ + g.spectral_calls],
                     compute_update([controller EXCEPT !.velocity = L.velocity],
                                    L.alpha, g.out.val))

\* lines 80-87, S_N being the outcome of line 80
ControlStep(controller, L, S_N, potential_grad_fn, spectral_grad_fn) ==
    IF ~S_N.ok THEN [L EXCEPT !.out = S_N]
    ELSE GradientStep(controller, L,
                      compute_gradient(controller, L.alpha, potential_grad_fn[1],
                                       spectral_grad_fn[1], S_N.val, One))

\* a variant that appends alpha to the history in every iteration, outside the test
\* of line 78, which C5 rules out
StoreAndUpdate_append_always(controller, L, current_metrics, processed, potential_grad_fn, spectral_grad_fn) ==
    IF ~current_metrics.ok THEN [L EXCEPT !.out = current_metrics]
    ELSE IF potential_grad_fn # None /\ spectral_grad_fn # None
    THEN ControlStep(controller,
                     [L EXCEPT !.metrics_history = StoreMetrics(@, current_metrics.val),
                               !.records = Append(@, current_metrics.val)],
                     cosmic_harmony_statistic(processed),
                     potential_grad_fn, spectral_grad_fn)
    ELSE [L EXCEPT !.metrics_history = StoreMetrics(@, current_metrics.val),
                   !.records = Append(@, current_metrics.val),
                   !.alpha_history = Append(@, L.alpha)]

\* lines 73-87, current_metrics being the outcome of lines 66-70
StoreAndUpdate(controller, L, current_metrics, processed, potential_grad_fn, spectral_grad_fn) ==
    IF ~current_metrics.ok THEN [L EXCEPT !.out = current_metrics]
    ELSE IF potential_grad_fn # None /\ spectral_grad_fn # None
    THEN ControlStep(controller,
                     [L EXCEPT !.metrics_history = StoreMetrics(@, current_metrics.val),
                               !.records = Append(@, current_metrics.val)],
                     cosmic_harmony_statistic(processed),
                     potential_grad_fn, spectral_grad_fn)
    ELSE [L EXCEPT !.metrics_history = StoreMetrics(@, current_metrics.val),
                   !.records = Append(@, current_metrics.val)]

\* lines 65-87: one iteration of the control loop
Iteration(controller, L, normalized_gaps, processed, potential_grad_fn, spectral_grad_fn) ==
    StoreAndUpdate(controller, L,
                   evaluate_pipeline(normalized_gaps, processed, L.alpha_history),
                   processed, potential_grad_fn, spectral_grad_fn)

RECURSIVE ControlLoop(_, _, _, _, _, _, _, _)
\* line 64: for iteration in range(n_iterations); an exception leaves the loop
ControlLoop(controller, L, iteration, n_iterations, normalized_gaps, processed, potential_grad_fn, spectral_grad_fn) ==
    IF iteration >= n_iterations \/ ~L.out.ok THEN L
    ELSE ControlLoop(controller,
                     Iteration(controller, L, normalized_gaps, processed,
                               potential_grad_fn, spectral_grad_fn),
                     iteration + 1, n_iterations, normalized_gaps, processed,
                     potential_grad_fn, spectral_grad_fn)

\* load() of the data source
load(source) ==
    IF source.kind = "unavailable" THEN Raise("SourceUnavailableError")
    ELSE Ok(source.sequence)

\* what run made: the pipeline it leaves, its outcome, the collaborator calls and the
\* Metrics Record evaluated in each iteration
Ran(self, out, made, records) ==
    [self |-> self, out |-> out, calls |-> made, records |-> records]

\* line 92, L being the loop's final state
RunResult(self, L) ==
    Ran([self EXCEPT !.alpha_history = L.alpha_history,
                     !.controller.velocity = L.velocity],
        IF L.out.ok THEN Ok(L.metrics_history) ELSE L.out,
        L.calls, L.records)

\* lines 52-92
RunControl(self, normalized_gaps, processed, n_iterations, potential_grad_fn, spectral_grad_fn) ==
    RunResult(self,
              ControlLoop(self.controller,
                          [alpha |-> <<One>>, velocity |-> self.controller.velocity,
                           alpha_history |-> self.alpha_history,
                           metrics_history |-> EmptyHistory, records |-> <<>>,
                           calls |-> NoCalls, out |-> Ok(None)],
                          0, n_iterations, normalized_gaps, processed,
                          potential_grad_fn, spectral_grad_fn))

\* lines 50-92, processed being the outcome of the inverse transform
RunProcessed(self, normalized_gaps, processed, n_iterations, potential_grad_fn, spectral_grad_fn) ==
    IF ~processed.ok THEN Ran(self, processed, NoCalls, <<>>)
    ELSE RunControl([self EXCEPT !.processed_sequence = Some(processed.val),
                                 !.controller.velocity =
                                     initialize(self.controller, 1).velocity],
                    normalized_gaps, processed.val, n_iterations,
                    potential_grad_fn, spectral_grad_fn)

\* lines 49-92, transformed being the outcome of the transform
RunTransformed(self, normalized_gaps, transformed, n_iterations, potential_grad_fn, spectral_grad_fn) ==
    IF ~transformed.ok THEN Ran(self, transformed, NoCalls, <<>>)
    ELSE RunProcessed(self, normalized_gaps,
                      inverse_transform(self.representation, transformed.val),
                      n_iterations, potential_grad_fn, spectral_grad_fn)

\* lines 46-92
RunNormalized(self, normalized_gaps, n_iterations, potential_grad_fn, spectral_grad_fn) ==
    RunTransformed(self, normalized_gaps,
                   transform(self.representation, normalized_gaps),
                   n_iterations, potential_grad_fn, spectral_grad_fn)

\* lines 45-92, loaded being the outcome of load()
RunLoaded(self, loaded, n_iterations, potential_grad_fn, spectral_grad_fn) ==
    IF ~loaded.ok THEN Ran(self, loaded, NoCalls, <<>>)
    ELSE RunNormalized([self EXCEPT !.original_sequence = Some(loaded.val)],
                       normalize_gaps(loaded.val).val,
                       n_iterations, potential_grad_fn, spectral_grad_fn)

run(self, n_iterations, potential_grad_fn, spectral_grad_fn) ==
    RunLoaded(self, load(self.data_source), n_iterations, potential_grad_fn,
              spectral_grad_fn)

\* a variant without the test of lines 96-97, a field that is None read as an empty
\* array, which C1 rules out
get_final_metrics_unguarded(self) ==
    evaluate_pipeline(IF self.original_sequence = None THEN <<>>
                      ELSE normalize_gaps(self.original_sequence[1]).val,
                      IF self.processed_sequence = None THEN <<>>
                      ELSE self.processed_sequence[1],
                      self.alpha_history)

get_final_metrics(self) ==
    IF self.original_sequence = None \/ self.processed_sequence = None
    THEN Raise(NotRunYet)
    ELSE evaluate_pipeline(normalize_gaps(self.original_sequence[1]).val,
                           self.processed_sequence[1], self.alpha_history)

(***************************************************************************)
(* Bounds and the inputs drawn from them                                   *)
(***************************************************************************)
MaxPoints == 4      \* the longest sequence a data source holds
MaxIter == 2        \* the largest n_iterations
MaxCalls == 2       \* the most compute_update calls between two initialize calls
MaxLen == 4         \* the longest array a stateless function is applied to

GapChoices == {0, 1}
Values == {0, 1, 2}

RECURSIVE Cumulative(_, _)
Cumulative(start, gaps) ==
    IF gaps = <<>> THEN <<Int2F(start)>>
    ELSE <<Int2F(start)>> \o Cumulative(start + gaps[1], Tail(gaps))

IntSeqs(S, n) == UNION {[1..k -> S] : k \in 0..n}

\* the sequences a data source holds: empty, or 1000, 1000 + g1, 1000 + g1 + g2, ...
Sequences ==
    IF MaxPoints = 0 THEN {<<>>}
    ELSE {<<>>} \cup {Cumulative(1000, g) : g \in IntSeqs(GapChoices, MaxPoints - 1)}

\* np.linspace(start, stop, num): num points from start to stop, both included
linspace(start, stop, num) ==
    IF num = 1 THEN <<start>>
    ELSE [i \in 1..num |->
             FAdd(start, FDiv(FMul(Int2F(i - 1), FSub(stop, start)), Int2F(num - 1)))]

\* data/synthetic.py, SyntheticSequence(n_points, "deterministic").load()
generate_deterministic(n_points) ==
    linspace(Int2F(1000), Int2F(1000 + n_points), n_points)

Sources == {[kind |-> "unavailable", sequence |-> <<>>]}
               \cup {[kind |-> "fixed", sequence |-> q] : q \in Sequences}
               \cup {[kind |-> "fixed", sequence |-> generate_deterministic(n)] :
                        n \in 0..MaxPoints}

Representations == {RawRepresentation}
    \cup {LieGroupSpectralCompression(b, Frac(1, 10)) : b \in {"dft", "wavelet", "haar"}}

GradFns == {[kind |-> "raises", c |-> <<>>], [kind |-> "const", c |-> <<One>>]}
OptGradFns == {None} \cup {Some(f) : f \in GradFns}

DefaultController == [learning_rate |-> Frac(1, 100), momentum |-> Frac(9, 10),
                      projection_fn |-> None, velocity |-> None]

(***************************************************************************)
(* The pipeline as a state machine                                         *)
(***************************************************************************)
Controller == [learning_rate |-> learning_rate, momentum |-> momentum,
               projection_fn |-> projection_fn, velocity |-> velocity]

Self == [data_source |-> data_source, representation |-> representation,
         original_sequence |-> original_sequence,
         processed_sequence |-> processed_sequence,
         alpha_history |-> alpha_history, controller |-> Controller]

OpOf(name, arg) == [name |-> name, arg |-> arg]
NoArgs == <<>>
EmptyTrace == [shape |-> 0, grads |-> <<>>]
NoFnArgs == [x |-> <<>>, y |-> <<>>, hist |-> <<>>]

\* SpectralPipeline(data_source, representation): lines 19-26
Init ==
    /\ data_source \in Sources
    /\ representation \in Representations
    /\ original_sequence = None
    /\ processed_sequence = None
    /\ alpha_history = <<>>
    /\ learning_rate = DefaultController.learning_rate
    /\ momentum = DefaultController.momentum
    /\ projection_fn = DefaultController.projection_fn
    /\ velocity = DefaultController.velocity
    /\ phase = "unrun"
    /\ op = OpOf("init", NoArgs)
    /\ ret = Ok(None)
    /\ calls = NoCalls
    /\ trace = EmptyTrace
    /\ args = NoFnArgs

\* op.arg keeps, beside the arguments, what the properties of run compare its result
\* with: the Metrics Record of every iteration and the alpha_history it started from
Run(n_iterations, potential_grad_fn, spectral_grad_fn) ==
    \E r \in {run(Self, n_iterations, potential_grad_fn, spectral_grad_fn)} :
        /\ original_sequence' = r.self.original_sequence
        /\ processed_sequence' = r.self.processed_sequence
        /\ alpha_history' = r.self.alpha_history
        /\ velocity' = r.self.controller.velocity
        /\ phase' = IF r.out.ok THEN "completed"
                    ELSE IF phase = "unrun" THEN "aborted" ELSE phase
        /\ op' = OpOf("run", [n_iterations |-> n_iterations,
                              potential_grad_fn |-> potential_grad_fn,
                              spectral_grad_fn |-> spectral_grad_fn,
                              records |-> r.records,
                              alpha_history_before |-> alpha_history])
        /\ ret' = r.out
        /\ calls' = r.calls
        /\ UNCHANGED <<data_source, representation, learning_rate, momentum,
                       projection_fn, trace, args>>

GetFinalMetrics ==
    /\ op' = OpOf("get_final_metrics", NoArgs)
    /\ ret' = get_final_metrics(Self)
    /\ calls' = NoCalls
    /\ UNCHANGED <<pipeline_vars, controller_vars, args>>

\* the gaps a caller of the statistics functions passes: those of the loaded data
\* (cli.py, validate)
DataGaps == normalize_gaps(data_source.sequence).val

\* a stateless function returned: only its outcome is new
Returned(out) ==
    /\ ret' = out
    /\ calls' = NoCalls
    /\ UNCHANGED <<pipeline_vars, controller_vars, args>>

StatisticOfData ==
    /\ data_source.kind = "fixed"
    /\ op' = OpOf("cosmic_harmony_statistic", NoArgs)
    /\ Returned(cosmic_harmony_statistic(DataGaps))

ValidateData ==
    /\ data_source.kind = "fixed"
    /\ op' = OpOf("validate_convergence", NoArgs)
    /\ Returned(validate_convergence(DataGaps))

DeviationOfData ==
    /\ data_source.kind = "fixed"
    /\ op' = OpOf("compute_deviation", NoArgs)
    /\ Returned(compute_deviation(DataGaps))

EvaluateData ==
    /\ data_source.kind = "fixed"
    /\ op' = OpOf("evaluate_pipeline", NoArgs)
    /\ Returned(evaluate_pipeline(DataGaps, DataGaps, alpha_history))

Next ==
    \/ \E n \in 0..MaxIter, p \in OptGradFns, q \in OptGradFns : Run(n, p, q)
    \/ GetFinalMetrics
    \/ StatisticOfData
    \/ ValidateData
    \/ DeviationOfData
    \/ EvaluateData

Spec == Init /\ [][Next]_vars

(***************************************************************************)
(* The controller on its own                                               *)
(***************************************************************************)
Shapes == {1, 2}
Alphas == {<<One>>, <<Zero, One>>}
Gradients == {<<One>>, <<Int2F(-2), One>>}
Statistics == {Zero, One}
Projections == {None, Some([kind |-> "clip"]), Some([kind |-> "raises"])}
Rates == {<<Frac(1, 100), Frac(9, 10)>>, <<Frac(1, 2), Frac(1, 2)>>}

\* CALController(learning_rate, momentum, projection_fn): lines 15-18
InitController ==
    /\ data_source = [kind |-> "unavailable", sequence |-> <<>>]
    /\ representation = RawRepresentation
    /\ original_sequence = None
    /\ processed_sequence = None
    /\ alpha_history = <<>>
    /\ \E r \in Rates : learning_rate = r[1] /\ momentum = r[2]
    /\ projection_fn \in Projections
    /\ velocity = None
    /\ phase = "unrun"
    /\ op = OpOf("init", NoArgs)
    /\ ret = Ok(None)
    /\ calls = NoCalls
    /\ trace = EmptyTrace
    /\ args = NoFnArgs

ControllerFrame == UNCHANGED <<pipeline_vars, learning_rate, momentum, projection_fn, args>>

Initialize(alpha_shape) ==
    \E r \in {initialize(Controller, alpha_shape)} :
        /\ velocity' = r.velocity
        /\ trace' = [shape |-> alpha_shape, grads |-> <<>>]
        /\ op' = OpOf("initialize", [alpha_shape |-> alpha_shape])
        /\ ret' = r.out
        /\ calls' = NoCalls
        /\ ControllerFrame

\* trace: the shape the velocity was zeroed with, and the gradients applied since
ComputeUpdate(alpha, gradient) ==
    /\ Len(trace.grads) < MaxCalls
    /\ \E r \in {compute_update(Controller, alpha, gradient)} :
        /\ velocity' = r.velocity
        /\ trace' = [shape |-> IF velocity = None THEN Len(alpha) ELSE trace.shape,
                     grads |-> Append(trace.grads, gradient)]
        /\ op' = OpOf("compute_update", [alpha |-> alpha, gradient |-> gradient,
                                         velocity_before |-> velocity])
        /\ ret' = r.out
        /\ calls' = [NoCalls EXCEPT !.compute_update = 1]
        /\ ControllerFrame

ComputeGradient(alpha, potential_grad_fn, spectral_grad_fn, S_N, mu) ==
    \E r \in {compute_gradient(Controller, alpha, potential_grad_fn, spectral_grad_fn,
                               S_N, mu)} :
        /\ op' = OpOf("compute_gradient",
                      [alpha |-> alpha, potential_grad_fn |-> potential_grad_fn,
                       spectral_grad_fn |-> spectral_grad_fn, S_N |-> S_N, mu |-> mu,
                       velocity_before |-> velocity])
        /\ ret' = r.out
        /\ calls' = [NoCalls EXCEPT !.compute_gradient = 1,
                                    !.potential_grad_fn = r.potential_calls,
                                    !.spectral_grad_fn = r.spectral_calls]
        /\ UNCHANGED velocity
        /\ UNCHANGED trace
        /\ ControllerFrame

NextController ==
    \/ \E shape \in Shapes : Initialize(shape)
    \/ \E alpha \in Alphas, g \in Gradients : ComputeUpdate(alpha, g)
    \/ \E alpha \in Alphas, p \in GradFns, q \in GradFns, S_N \in Statistics :
           ComputeGradient(alpha, p, q, S_N, One)

SpecController == InitController /\ [][NextController]_vars

(***************************************************************************)
(* The stateless functions, applied to arrays drawn at the start           *)
(***************************************************************************)
Arrays == {[i \in 1..Len(q) |-> Int2F(q[i])] : q \in IntSeqs(Values, MaxLen)}

\* reconstructions of x: x itself, zeros, its first element alone, x without it
Reconstructions(x) ==
    {x, Zeros(Len(x)), SubSeq(x, 1, Min(1, Len(x))), SubSeq(x, 2, Len(x))}

Histories == {<<>>, << <<One>> >>, << <<One>>, <<Zero>> >>}

InitFn ==
    /\ data_source = [kind |-> "unavailable", sequence |-> <<>>]
    /\ representation = RawRepresentation
    /\ original_sequence = None
    /\ processed_sequence = None
    /\ alpha_history = <<>>
    /\ learning_rate = DefaultController.learning_rate
    /\ momentum = DefaultController.momentum
    /\ projection_fn = DefaultController.projection_fn
    /\ velocity = DefaultController.velocity
    /\ phase = "unrun"
    /\ op = OpOf("init", NoArgs)
    /\ ret = Ok(None)
    /\ calls = NoCalls
    /\ trace = EmptyTrace
    /\ \E x \in Arrays : \E y \in Reconstructions(x) : \E h \in Histories :
           args = [x |-> x, y |-> y, hist |-> h]

CosmicHarmonyStatistic ==
    /\ op' = OpOf("cosmic_harmony_statistic", NoArgs)
    /\ Returned(cosmic_harmony_statistic(args.x))

ValidateConvergence ==
    /\ op' = OpOf("validate_convergence", NoArgs)
    /\ Returned(validate_convergence(args.x))

NormalizeGaps ==
    /\ op' = OpOf("normalize_gaps", NoArgs)
    /\ Returned(normalize_gaps(args.x))

ComputeDeviation ==
    /\ op' = OpOf("compute_deviation", NoArgs)
    /\ Returned(compute_deviation(args.x))

ComputeReconstructionError ==
    /\ op' = OpOf("compute_reconstruction_error", NoArgs)
    /\ Returned(compute_reconstruction_error(args.x, args.y))

EvaluatePipeline ==
    /\ op' = OpOf("evaluate_pipeline", NoArgs)
    /\ Returned(evaluate_pipeline(args.x, args.y, args.hist))

ComputeParameterStability ==
    /\ op' = OpOf("compute_parameter_stability", NoArgs)
    /\ Returned(Ok(compute_parameter_stability(args.hist)))

\* sample sizes convergence_bound is called with, the defaults A and B left in place
SampleSizes == {2, 3, 100, 1000}

ConvergenceBound(N) ==
    /\ op' = OpOf("convergence_bound", [N |-> N])
    /\ Returned(Ok(convergence_bound(N, A_CONSTANT, B_CONSTANT)))

NextFn ==
    \/ CosmicHarmonyStatistic
    \/ ValidateConvergence
    \/ NormalizeGaps
    \/ ComputeDeviation
    \/ ComputeReconstructionError
    \/ EvaluatePipeline
    \/ ComputeParameterStability
    \/ \E N \in SampleSizes : ConvergenceBound(N)

SpecFn == InitFn /\ [][NextFn]_vars

(***************************************************************************)
(* The representations on their own, and the pipeline over them            *)
(***************************************************************************)
\* basis selectors: the two recognized ones, and others (the test is case-sensitive)
RecognizedSelectors == {"dft", "wavelet"}
Selectors == RecognizedSelectors \cup {"haar", "DFT", ""}

\* a pipeline whose data source returns the array args.x
InitRepresentation ==
    /\ \E x \in Arrays :
           /\ args = [x |-> x, y |-> <<>>, hist |-> <<>>]
           /\ data_source = [kind |-> "fixed", sequence |-> x]
    /\ representation \in
           {RawRepresentation} \cup {LieGroupSpectralCompression(b, Frac(1, 10)) : b \in Selectors}
    /\ original_sequence = None
    /\ processed_sequence = None
    /\ alpha_history = <<>>
    /\ learning_rate = DefaultController.learning_rate
    /\ momentum = DefaultController.momentum
    /\ projection_fn = DefaultController.projection_fn
    /\ velocity = DefaultController.velocity
    /\ phase = "unrun"
    /\ op = OpOf("init", NoArgs)
    /\ ret = Ok(None)
    /\ calls = NoCalls
    /\ trace = EmptyTrace

Transform ==
    /\ op' = OpOf("transform", [sequence |-> args.x])
    /\ Returned(transform(representation, args.x))

\* what inverse_transform is given: the array args.x where the representation takes
\* coefficients of any kind (Raw, or a basis whose test fails before they are
\* read), and what transform returned for args.x
InverseInputs(transformed) ==
    (IF representation.kind = "raw" \/ representation.basis_type \notin RecognizedSelectors
     THEN {args.x} ELSE {})
        \cup (IF transformed.ok THEN {transformed.val} ELSE {})

InverseTransform ==
    \E transformed \in InverseInputs(transform(representation, args.x)) :
        /\ op' = OpOf("inverse_transform", [transformed |-> transformed])
        /\ Returned(inverse_transform(representation, transformed))

NextRepresentation ==
    \/ Transform
    \/ InverseTransform
    \/ \E n \in 0..MaxIter : Run(n, None, None)

SpecRepresentation == InitRepresentation /\ [][NextRepresentation]_vars

(***************************************************************************)
(* Properties of the pipeline, checked under Spec                          *)
(***************************************************************************)
\* the last operation was run with at least one gradient function absent
RunAbsent ==
    /\ op.name = "run"
    /\ (op.arg.potential_grad_fn = None \/ op.arg.spectral_grad_fn = None)

\* the last operation was run with both gradient functions, neither raising
RunBoth ==
    /\ op.name = "run"
    /\ op.arg.potential_grad_fn # None
    /\ op.arg.spectral_grad_fn # None
    /\ op.arg.potential_grad_fn[1].kind = "const"
    /\ op.arg.spectral_grad_fn[1].kind = "const"

\* the data source yields a sequence with at least 3 gaps
ValidData == data_source.kind = "fixed" /\ Len(DataGaps) >= 3

\* the representation transforms the gaps of the data and transforms them back
RoundTripOutcome(transformed) ==
    IF ~transformed.ok THEN transformed
    ELSE inverse_transform(representation, transformed.val)
RoundTripSucceeds == RoundTripOutcome(transform(representation, DataGaps)).ok

NoControlUpdate ==
    /\ calls.compute_gradient = 0
    /\ calls.compute_update = 0
    /\ alpha_history = op.arg.alpha_history_before

\* C1: get_final_metrics on a pipeline on which run was never called fails with the
\* pipeline-not-run-yet error, returning no Metrics Record, and the original
\* sequence, the processed sequence and the Parameter History stay as constructed.
C1_NotRunYet ==
    (op.name = "get_final_metrics" /\ phase = "unrun") =>
        /\ ret = Raise(NotRunYet)
        /\ original_sequence = None
        /\ processed_sequence = None
        /\ alpha_history = <<>>

C1_Witness == op.name = "get_final_metrics" /\ phase = "unrun" /\ ~ret.ok

\* C2: get_final_metrics returns a Metrics Record only in the completed state, that
\* is only after some run returned normally; after runs that all aborted it fails.
C2_RecordOnlyWhenCompleted ==
    (op.name = "get_final_metrics" /\ ret.ok) => phase = "completed"

\* C3: a run(n) that returns normally returns a Metrics History in which every metric
\* name has exactly n values, the i-th being that metric's value in the Metrics
\* Record of iteration i.
C3_HistoryHasEveryIteration ==
    (op.name = "run" /\ ret.ok) =>
        \A key \in DOMAIN ret.val :
            /\ Len(ret.val[key]) = op.arg.n_iterations
            /\ \A i \in 1..Len(ret.val[key]) :
                   /\ i <= Len(op.arg.records)
                   /\ key \in DOMAIN op.arg.records[i]
                   /\ ret.val[key][i] = op.arg.records[i][key]

\* C4: run(n), n >= 1, on valid data whose round trip through the representation
\* succeeds, with both gradient functions supplied and neither raising, completes
\* normally, and the Parameter History then holds exactly the n vectors of that run.
C4_RunWithGradientsCompletes ==
    (RunBoth /\ op.arg.n_iterations >= 1 /\ ValidData /\ RoundTripSucceeds) =>
        /\ ret.ok
        /\ calls.compute_update = op.arg.n_iterations
        /\ Len(alpha_history) = op.arg.n_iterations

StatisticOperations ==
    {"cosmic_harmony_statistic", "validate_convergence", "compute_deviation",
     "evaluate_pipeline"}

C9_InsufficientDataPropagates ==
    /\ (op.name \in StatisticOperations /\ Len(DataGaps) < 3) =>
           ret = Raise(InsufficientData)
    /\ (/\ op.name = "run"
        /\ op.arg.n_iterations >= 1
        /\ data_source.kind = "fixed"
        /\ Len(DataGaps) < 3
        /\ RoundTripSucceeds) => ret = Raise(InsufficientData)
    /\ (/\ op.name = "get_final_metrics"
        /\ processed_sequence # None
        /\ Len(DataGaps) < 3) => ret = Raise(InsufficientData)

C9_Witness ==
    /\ op.name = "run"
    /\ Len(DataGaps) = 2
    /\ op.arg.potential_grad_fn # None
    /\ op.arg.spectral_grad_fn # None
    /\ ret = Raise(InsufficientData)

\* a sequence of at least 4 points, strictly increasing with a constant step
ConstantStep(sequence) ==
    /\ Len(sequence) >= 4
    /\ \A i \in 1..(Len(sequence) - 1) :
           /\ FLt(sequence[i], sequence[i + 1])
           /\ FSub(sequence[i + 1], sequence[i]) = FSub(sequence[2], sequence[1])

AllOnes(gaps) == \A i \in 1..Len(gaps) : gaps[i] = One

\* C15: for a strictly increasing sequence with constant step and at least 4 points
\* (such as the deterministic synthetic sequence), normalize_gaps returns gaps all
\* equal to 1.0, cosmic_harmony_statistic of them is 1.0 and compute_deviation is
\* |1.0 - 0.60338| = 0.39662.
C15_ConstantStepScenario ==
    (data_source.kind = "fixed" /\ ConstantStep(data_source.sequence)) =>
        /\ (op.name = "run" /\ representation.kind = "raw") =>
               /\ processed_sequence # None
               /\ Len(processed_sequence[1]) = Len(data_source.sequence) - 1
               /\ AllOnes(processed_sequence[1])
        /\ op.name = "cosmic_harmony_statistic" => ret = Ok(One)
        /\ op.name = "compute_deviation" => ret = Ok(Frac(39662, 100000))

C15_Witness ==
    /\ op.name = "compute_deviation"
    /\ data_source.sequence = generate_deterministic(MaxPoints)
    /\ ConstantStep(data_source.sequence)
    /\ FSub(data_source.sequence[2], data_source.sequence[1]) # One
    /\ ret = Ok(Frac(39662, 100000))

(***************************************************************************)
(* Properties of the controller, checked under SpecController              *)
(***************************************************************************)
\* C6: for gradient callables that return normally, compute_gradient returns
\* potential_grad_fn(alpha) + mu * 2 * (S_N - C_GUE) * spectral_grad_fn(alpha),
\* having called each callable exactly once and changed no controller state.
C6_GradientIsCombination ==
    (/\ op.name = "compute_gradient"
     /\ op.arg.potential_grad_fn.kind = "const"
     /\ op.arg.spectral_grad_fn.kind = "const") =>
        /\ ret = Ok(VAdd(op.arg.potential_grad_fn.c,
                         Scale(FMul(FMul(op.arg.mu, Int2F(2)), FSub(op.arg.S_N, C_GUE)),
                               op.arg.spectral_grad_fn.c)))
        /\ calls.potential_grad_fn = 1
        /\ calls.spectral_grad_fn = 1
        /\ velocity = op.arg.velocity_before

\* the velocity a compute_update call started from: zeros of alpha's shape if the
\* controller was uninitialized
VelocityOld ==
    IF op.arg.velocity_before = None THEN Zeros(Len(op.arg.alpha))
    ELSE op.arg.velocity_before[1]

IsZeroVector(v) == \A i \in 1..Len(v) : v[i] = Zero

\* alpha_new as returned: passed through the projection operator if there is one
Returned_alpha(alpha_new) ==
    IF projection_fn = None THEN Ok(alpha_new) ELSE Project(projection_fn[1], alpha_new)

\* two outcomes with equal values, arrays compared element by element as numpy
\* compares them (an array of one element stands for any number of copies of it)
SameValues(a, b) ==
    /\ a.ok = b.ok
    /\ ~a.ok => a = b
    /\ a.ok => /\ Broadcastable(a.val, b.val)
               /\ \A i \in 1..BLen(a.val, b.val) : At(a.val, i) = At(b.val, i)

RECURSIVE FPow(_, _)
FPow(x, k) == IF k = 0 THEN One ELSE FMul(x, FPow(x, k - 1))

\* the sum over i <= j of momentum^(k - i) * learning_rate * g_i, on top of the zero
\* velocity of the shape it was given
RECURSIVE VelocitySum(_, _)
VelocitySum(j, k) ==
    IF j = 0 THEN Zeros(trace.shape)
    ELSE VAdd(VelocitySum(j - 1, k),
              Scale(FMul(FPow(momentum, k - j), learning_rate), trace.grads[j]))

\* C7: every compute_update(alpha, g) sets velocity to momentum * velocity_old +
\* learning_rate * g and returns alpha - velocity_new, passed through the projection
\* operator when one is configured; from an uninitialized or zero velocity it
\* returns alpha - learning_rate * g; and k calls after the velocity was zeroed it is
\* the sum over i of momentum^(k - i) * learning_rate * g_i.
C7_MomentumUpdate ==
    op.name = "compute_update" =>
        /\ velocity = Some(VAdd(Scale(momentum, VelocityOld),
                                Scale(learning_rate, op.arg.gradient)))
        /\ ret = Returned_alpha(VSub(op.arg.alpha, velocity[1]))
        /\ IsZeroVector(VelocityOld) =>
               /\ SameValues(ret, Returned_alpha(VSub(op.arg.alpha,
                                                      Scale(learning_rate,
                                                            op.arg.gradient))))
               /\ Len(VelocityOld) = Len(op.arg.alpha) =>
                      ret = Returned_alpha(VSub(op.arg.alpha,
                                                Scale(learning_rate, op.arg.gradient)))
        /\ velocity[1] = VelocitySum(Len(trace.grads), Len(trace.grads))

C7_Witness ==
    /\ op.name = "compute_update"
    /\ Len(trace.grads) = MaxCalls
    /\ ~IsZeroVector(VelocityOld)
    /\ projection_fn # None
    /\ ret.ok

\* C17: the controller's velocity is unset only before its first initialize or
\* compute_update call; from then on it is set, whatever initialize, compute_update
\* and compute_gradient calls follow and however they end.  The first compute_update
\* on an uninitialized controller starts the momentum rule from a zero velocity of
\* the shape of alpha.
C17_VelocityStaysSet ==
    /\ velocity = None <=> trace = EmptyTrace
    /\ op.name \in {"initialize", "compute_update"} => velocity # None
    /\ (op.name = "compute_gradient" /\ op.arg.velocity_before # None) => velocity # None
    /\ (op.name = "compute_update" /\ op.arg.velocity_before = None) =>
           /\ trace.shape = Len(op.arg.alpha)
           /\ velocity = Some(VAdd(Scale(momentum, Zeros(Len(op.arg.alpha))),
                                   Scale(learning_rate, op.arg.gradient)))

C17_Witness ==
    /\ op.name = "compute_update"
    /\ op.arg.velocity_before = None
    /\ Len(op.arg.alpha) = 2
    /\ ~ret.ok
    /\ velocity # None

(***************************************************************************)
(* Properties of the stateless functions, checked under SpecFn             *)
(***************************************************************************)
\* C8: validate_convergence on at least 3 gaps returns a result whose bound_satisfied
\* is true exactly if deviation <= bound, and whose safety_margin is bound -
\* deviation, and not negative, if bound_satisfied, and absent (None) if not.
C8_MarginOnlyWhenSatisfied ==
    (op.name = "validate_convergence" /\ Len(args.x) >= 3) =>
        /\ ret.ok
        /\ ret.val.bound_satisfied = FLe(ret.val.deviation, ret.val.bound)
        /\ ret.val.bound_satisfied =>
               /\ ret.val.safety_margin = Some(FSub(ret.val.bound, ret.val.deviation))
               /\ FLe(Zero, ret.val.safety_margin[1])
        /\ ~ret.val.bound_satisfied => ret.val.safety_margin = None

C8_Witness ==
    /\ op.name = "validate_convergence"
    /\ ret.ok
    /\ FLt(ret.val.bound, ret.val.deviation)
    /\ ret.val.safety_margin = None

\* C10: a division by a zero denominator is raised as an error, not returned as NaN
\* or infinity: compute_reconstruction_error with an original of zero norm, and
\* normalize_gaps on a sequence whose gaps have zero mean, both fail.
C10_DegenerateDivisionRaises ==
    /\ (op.name = "compute_reconstruction_error" /\ SumSq(args.x) = Zero) => ~ret.ok
    /\ (/\ op.name = "normalize_gaps"
        /\ Len(args.x) >= 2
        /\ Mean(Diff(args.x)) = Zero) => ~ret.ok

(***************************************************************************)
(* Properties of the representations, checked under SpecRepresentation     *)
(***************************************************************************)
RepresentationCall == op.name \in {"transform", "inverse_transform"}

\* C11: a spectral compression whose basis selector is not 'dft' or 'wavelet' fails
\* with the unsupported-basis error in transform and in inverse_transform, on every
\* input, returning no array; with a recognized selector neither raises that error.
C11_UnsupportedBasis ==
    (RepresentationCall /\ representation.kind = "lie_group") =>
        IF representation.basis_type \in RecognizedSelectors
        THEN ret # Raise(UnknownBasis)
        ELSE ret = Raise(UnknownBasis)

C11_Witness ==
    /\ op.name = "inverse_transform"
    /\ representation.kind = "lie_group"
    /\ representation.basis_type = "DFT"
    /\ Len(op.arg.transformed) = MaxLen
    /\ ret = Raise(UnknownBasis)

\* C16: for the Raw representation inverse_transform(transform(x)) is x, element for
\* element and of the same length, x itself being left as it was; so a pipeline run
\* with the Raw representation has its processed sequence equal to the normalized
\* gaps.
C16_RawRoundTrip ==
    representation.kind = "raw" =>
        /\ args.x = data_source.sequence
        /\ op.name = "transform" => ret = Ok(args.x)
        /\ (/\ op.name = "inverse_transform"
            /\ op.arg.transformed = transform(representation, args.x).val) =>
               ret = Ok(args.x)
        /\ op.name = "run" =>
               processed_sequence = Some(normalize_gaps(data_source.sequence).val)

C16_Witness ==
    /\ representation.kind = "raw"
    /\ op.name = "inverse_transform"
    /\ Len(args.x) = MaxLen
    /\ args.x[1] # args.x[MaxLen]
    /\ ret = Ok(args.x)

(***************************************************************************)
(* Further properties of the stateless functions, checked under SpecFn     *)
(***************************************************************************)
\* the metrics compute_parameter_stability reports for histories of 2 or more
StabilityMetrics == {"mean_change", "max_change", "final_change"}

\* C12: compute_parameter_stability on a history of fewer than 2 parameter vectors
\* returns without error, and each metric it reports for longer histories (mean,
\* max and most-recent change) is present with value 0.0.
C12_VacuousStability ==
    (op.name = "compute_parameter_stability" /\ Len(args.hist) < 2) =>
        /\ ret.ok
        /\ \A key \in StabilityMetrics :
               /\ key \in DOMAIN ret.val
               /\ ret.val[key] = Zero

\* |a - b| <= tol
Within(a, b, tol) == FLe(FAbs(FSub(a, b)), tol)

RECURSIVE PairSum(_, _)
PairSum(gaps, k) ==
    IF k = 0 THEN Zero ELSE FAdd(PairSum(gaps, k - 1), FMul(gaps[k], gaps[k + 1]))

\* C14: for M >= 3 gaps, cosmic_harmony_statistic returns the sum of the products of
\* each gap with its successor, over the M-1 adjacent pairs, divided by M-1; for
\* gaps all equal to 1.0 it returns exactly 1.0.
C14_MeanOfAdjacentProducts ==
    (op.name = "cosmic_harmony_statistic" /\ Len(args.x) >= 3) =>
        /\ ret = Ok(FDiv(PairSum(args.x, Len(args.x) - 1), Int2F(Len(args.x) - 1)))
        /\ (\A i \in 1..Len(args.x) : args.x[i] = One) => ret = Ok(One)

C14_Witness ==
    /\ op.name = "cosmic_harmony_statistic"
    /\ Len(args.x) = MaxLen
    /\ args.x[MaxLen] # args.x[1]
    /\ ret.ok
    /\ FLt(One, ret.val)

====
